---- MODULE Spec2Model ----
(***************************************************************************)
(* The InvestmentCalculator component of src/src/investment-calculator.js: *)
(* its four pieces of React state (isDarkMode, errors, inputs, results),   *)
(* the input validator, the bracket recommendation, the debounced          *)
(* simulation and the effect that schedules and cancels it.                *)
(*                                                                         *)
(* Numbers.  A JavaScript number is modelled on a fixed grid:              *)
(*   - an amount of money is an integer count of 1/Scale euro, so one cent *)
(*     is SubCent grid steps and toFixed(2) rounds to a multiple of        *)
(*     SubCent;                                                            *)
(*   - tauxAnnuel is an integer count of 1/RateScale percent;              *)
(*   - nombreAnnees and mois are integers;                                 *)
(*   - NaN is a value of its own, outside every range the model uses, and  *)
(*     every arithmetic operator and comparison treats it as JavaScript    *)
(*     does (arithmetic yields NaN, every comparison is false).            *)
(***************************************************************************)
EXTENDS Integers, Sequences, FiniteSets, TLC

VARIABLES
    isDarkMode,    \* useState(true), line 51
    errors,        \* useState({}), line 52: field name -> message
    inputs,        \* useState({...}), lines 54-60
    results,       \* useState({...}), lines 62-71
    rErrors,       \* the `errors` the handlers of the current render close over
    stale,         \* setInputs / setErrors were called since the last render
    timer,         \* the pending debounced calls, each named by the `inputs` it reads
    timerInputs,   \* the `inputs` the debounced closure of the current render reads
    mounted,       \* the component is mounted
    ran,           \* history: the `inputs` read by the run that wrote results
    lastEvent,     \* history: the last handleInputChange(name, value)
    lastRaw,       \* history: field name -> the last raw value submitted for it
    nChanges       \* history: how many handleInputChange events were handled

vars == <<isDarkMode, errors, inputs, results, rErrors, stale, timer,
          timerInputs, mounted, ran, lastEvent, lastRaw, nChanges>>

---------------------------------------------------------------------------
(* Bounds of the model *)

\* Grid steps per cent: the precision the accumulator keeps below the cent.
SubCent == 10

\* handleInputChange events in one behaviour.
MaxChanges == 2

\* The largest nombreAnnees * tauxAnnuel (in years x percent) the model
\* simulates, which keeps every total inside TLC's integers.
MaxGrowth == 125

---------------------------------------------------------------------------
(* Numbers *)

\* Number.NaN: what parseFloat / parseInt return for an unparseable string.
NaN == -999999999

\* toFixed(2): two decimals, 100 cents in one euro.
CentsPerEuro == 100

\* The rate field steps by 0.1 percent.
RateScale == 10

Scale == CentsPerEuro * SubCent

Eur(n) == n * Scale
Pct(n) == n * RateScale

IsNaN(x) == x = NaN

\* a + b
Add(a, b) == IF IsNaN(a) \/ IsNaN(b) THEN NaN ELSE a + b
\* a - b
Sub(a, b) == IF IsNaN(a) \/ IsNaN(b) THEN NaN ELSE a - b
\* a * b, where one factor is a plain integer (a count of months or years)
Mul(a, b) == IF IsNaN(a) \/ IsNaN(b) THEN NaN ELSE a * b
\* a < b, a > b, a <= b
Lt(a, b) == ~IsNaN(a) /\ ~IsNaN(b) /\ a < b
Gt(a, b) == ~IsNaN(a) /\ ~IsNaN(b) /\ a > b
Le(a, b) == ~IsNaN(a) /\ ~IsNaN(b) /\ a <= b

\* Math.max(a, b), Math.min(a, b): NaN if either argument is NaN
MathMax(a, b) == IF IsNaN(a) \/ IsNaN(b) THEN NaN ELSE IF a >= b THEN a ELSE b
MathMin(a, b) == IF IsNaN(a) \/ IsNaN(b) THEN NaN ELSE IF a <= b THEN a ELSE b

\* n / d rounded to the nearest integer, halves away from zero (n any sign, d > 0)
RoundDiv(n, d) ==
    IF n >= 0 THEN (2 * n + d) \div (2 * d) ELSE -((2 * (-n) + d) \div (2 * d))

\* parseFloat(x.toFixed(2)): x rounded to the nearest cent
ToFixed2(x) == IF IsNaN(x) THEN NaN ELSE RoundDiv(x, SubCent) * SubCent


---------------------------------------------------------------------------
(* Static configuration *)

FieldNames == {"sommeInitiale", "mensualite", "tauxAnnuel", "nombreAnnees"}

\* tauxEpargneRecommande is kept in hundredths: 0.05 is 5 / RateDen.
RateDen == 100

TRANCHES == <<
    [id |-> "moins-2000", min |-> 0,    max |-> 2000,   tauxEpargneRecommande |-> 5],
    [id |-> "2000-4000",  min |-> 2000, max |-> 4000,   tauxEpargneRecommande |-> 10],
    [id |-> "4000-6000",  min |-> 4000, max |-> 6000,   tauxEpargneRecommande |-> 15],
    [id |-> "6000-8000",  min |-> 6000, max |-> 8000,   tauxEpargneRecommande |-> 20],
    [id |-> "plus-8000",  min |-> 8000, max |-> 100000, tauxEpargneRecommande |-> 25] >>

TrancheIds == {TRANCHES[i].id : i \in 1..Len(TRANCHES)}

InitialInputs ==
    [sommeInitiale |-> Eur(0), mensualite |-> Eur(120), tauxAnnuel |-> Pct(3),
     nombreAnnees |-> 3, trancheRevenu |-> "moins-2000"]

InitialResults ==
    [montantTotal |-> 0, montantInvesti |-> 0, gains |-> 0, graphData |-> <<>>,
     recommandation |-> [montantRecommande |-> 0, pourcentageRevenu |-> 0]]

---------------------------------------------------------------------------
(* validateInput, lines 74-113 *)

\* { ...e, [f]: m } and `delete e[f]` on a copy of e
WithKey(e, f, m) == [k \in (DOMAIN e) \cup {f} |-> IF k = f THEN m ELSE e[k]]
WithoutKey(e, f) == [k \in (DOMAIN e) \ {f} |-> e[k]]

\* validateInput with the upper clamp of the two bounded fields forgotten
\* (Math.max only): the message is set, the value is not brought down.
validateInputNoMin(name, value) ==
    CASE name = "sommeInitiale" ->
           [value  |-> MathMax(Eur(0), value),
            errors |-> IF Lt(value, Eur(0))
                       THEN WithKey(rErrors, name, "Le montant doit etre positif")
                       ELSE WithoutKey(rErrors, name)]
      [] name = "mensualite" ->
           [value  |-> MathMax(Eur(0), value),
            errors |-> IF Lt(value, Eur(0))
                       THEN WithKey(rErrors, name, "Le versement doit etre positif")
                       ELSE WithoutKey(rErrors, name)]
      [] name = "tauxAnnuel" ->
           [value  |-> MathMax(Pct(0), value),
            errors |-> IF Lt(value, Pct(0)) \/ Gt(value, Pct(100))
                       THEN WithKey(rErrors, name, "Le taux doit etre entre 0 et 100%")
                       ELSE WithoutKey(rErrors, name)]
      [] name = "nombreAnnees" ->
           [value  |-> MathMax(1, value),
            errors |-> IF Lt(value, 1) \/ Gt(value, 50)
                       THEN WithKey(rErrors, name, "La duree doit etre entre 1 et 50 ans")
                       ELSE WithoutKey(rErrors, name)]
      [] OTHER ->
           [value |-> value, errors |-> rErrors]

validateInput(name, value) ==
    CASE name = "sommeInitiale" ->
           [value  |-> MathMax(Eur(0), value),
            errors |-> IF Lt(value, Eur(0))
                       THEN WithKey(rErrors, name, "Le montant doit etre positif")
                       ELSE WithoutKey(rErrors, name)]
      [] name = "mensualite" ->
           [value  |-> MathMax(Eur(0), value),
            errors |-> IF Lt(value, Eur(0))
                       THEN WithKey(rErrors, name, "Le versement doit etre positif")
                       ELSE WithoutKey(rErrors, name)]
      [] name = "tauxAnnuel" ->
           [value  |-> MathMin(Pct(100), MathMax(Pct(0), value)),
            errors |-> IF Lt(value, Pct(0)) \/ Gt(value, Pct(100))
                       THEN WithKey(rErrors, name, "Le taux doit etre entre 0 et 100%")
                       ELSE WithoutKey(rErrors, name)]
      [] name = "nombreAnnees" ->
           [value  |-> MathMin(50, MathMax(1, value)),
            errors |-> IF Lt(value, 1) \/ Gt(value, 50)
                       THEN WithKey(rErrors, name, "La duree doit etre entre 1 et 50 ans")
                       ELSE WithoutKey(rErrors, name)]
      [] OTHER ->
           [value |-> value, errors |-> rErrors]

---------------------------------------------------------------------------
(* calculateRecommendation, lines 180-197 *)

\* Math.round(n / d) for n >= 0, d > 0: halves go up
MathRound(n, d) == (2 * n + d) \div (2 * d)

\* revenuMoyen taken as the top of the bracket instead of its midpoint.
RevenuMoyenMax(tranche) == 2 * tranche.max

\* revenuMoyen = (tranche.min + tranche.max) / 2, line 188, kept as twice its
\* value
RevenuMoyen2(tranche) == tranche.min + tranche.max

\* calculateRecommendation with a fallback for an unknown id: the first
\* bracket is used instead of the zero recommendation.
calculateRecommendationFallback(trancheId) ==
    LET known == IF trancheId \in TrancheIds THEN trancheId ELSE TRANCHES[1].id
        tranche == TRANCHES[CHOOSE i \in 1..Len(TRANCHES) : TRANCHES[i].id = known]
    IN  [montantRecommande |->
             MathRound(RevenuMoyen2(tranche) * tranche.tauxEpargneRecommande,
                       2 * RateDen),
         pourcentageRevenu |->
             (tranche.tauxEpargneRecommande * 100) \div RateDen]

calculateRecommendation(trancheId) ==
    IF trancheId \notin TrancheIds
    THEN [montantRecommande |-> 0, pourcentageRevenu |-> 0]
    ELSE LET tranche == TRANCHES[CHOOSE i \in 1..Len(TRANCHES) :
                                     TRANCHES[i].id = trancheId]
         IN  [montantRecommande |->
                  MathRound(RevenuMoyen2(tranche) * tranche.tauxEpargneRecommande,
                            2 * RateDen),
              pourcentageRevenu |->
                  (tranche.tauxEpargneRecommande * 100) \div RateDen]

---------------------------------------------------------------------------
(* calculateInvestment, lines 200-239 *)

\* nombreMois one short: the loop stops a month early.
NombreMoisOneShort(inp) == Sub(Mul(inp.nombreAnnees, 12), 1)

\* nombreMois = inputs.nombreAnnees * 12, line 203
NombreMois(inp) == Mul(inp.nombreAnnees, 12)

\* tauxMensuel = inputs.tauxAnnuel / 100 / 12, line 204, is kept as the
\* numerator tauxAnnuel over the denominator MonthlyDen
MonthlyDen == 100 * 12 * RateScale
\* (inputs.tauxAnnuel || 3) / 100 / 12: a zero rate (falsy) replaced by the default.
TauxMensuelOrDefault(inp) ==
    IF IsNaN(inp.tauxAnnuel) \/ inp.tauxAnnuel = 0 THEN Pct(3) ELSE inp.tauxAnnuel
TauxMensuel(inp) == inp.tauxAnnuel

\* total * (1 + tauxMensuel), rounded once to the grid
TimesOnePlus(total, tauxMensuel) ==
    IF IsNaN(total) \/ IsNaN(tauxMensuel) THEN NaN
    ELSE total + (total \div MonthlyDen) * tauxMensuel
               + RoundDiv((total % MonthlyDen) * tauxMensuel, MonthlyDen)

\* The loop body with the rounded total fed back into the accumulator.
LoopBodyRoundedFeedback(inp, tauxMensuel, mois, acc) ==
    LET grown == TimesOnePlus(Add(acc.montantTotal, inp.mensualite), tauxMensuel)
    IN  [montantTotal |-> ToFixed2(grown),
         graphData |-> Append(acc.graphData,
             [mois    |-> mois,
              total   |-> ToFixed2(grown),
              investi |-> Add(inp.sommeInitiale, Mul(inp.mensualite, mois))])]

\* The loop body with growth applied before the contribution is added.
LoopBodyGrowthFirst(inp, tauxMensuel, mois, acc) ==
    LET grown == Add(TimesOnePlus(acc.montantTotal, tauxMensuel), inp.mensualite)
    IN  [montantTotal |-> grown,
         graphData |-> Append(acc.graphData,
             [mois    |-> mois,
              total   |-> ToFixed2(grown),
              investi |-> Add(inp.sommeInitiale, Mul(inp.mensualite, mois))])]

\* The loop body with the contribution subtracted instead of added.
LoopBodyWithdraw(inp, tauxMensuel, mois, acc) ==
    LET grown == TimesOnePlus(Sub(acc.montantTotal, inp.mensualite), tauxMensuel)
    IN  [montantTotal |-> grown,
         graphData |-> Append(acc.graphData,
             [mois    |-> mois,
              total   |-> ToFixed2(grown),
              investi |-> Add(inp.sommeInitiale, Mul(inp.mensualite, mois))])]

\* One pass of the loop body, lines 213-220: acc is the accumulator
\* montantTotal and the graphData pushed so far
LoopBody(inp, tauxMensuel, mois, acc) ==
    LET grown == TimesOnePlus(Add(acc.montantTotal, inp.mensualite), tauxMensuel)
    IN  [montantTotal |-> grown,
         graphData |-> Append(acc.graphData,
             [mois    |-> mois,
              total   |-> ToFixed2(grown),
              investi |-> Add(inp.sommeInitiale, Mul(inp.mensualite, mois))])]

\* for (let mois = first; mois <= nombreMois; mois++), lines 212-221.  The
\* passes first..nombreMois run in order, first half then second half, the
\* accumulator threaded through: the same passes as the loop, evaluated
\* without nesting one level per month.  graphData is never empty (it starts
\* with the point of month 0): the test on it makes the first half be
\* evaluated before the second half starts.
RECURSIVE Loop(_, _, _, _, _)
Loop(inp, tauxMensuel, first, nombreMois, acc) ==
    IF ~Le(first, nombreMois) THEN acc
    ELSE IF first = nombreMois THEN LoopBody(inp, tauxMensuel, first, acc)
    ELSE LET mid == (first + nombreMois) \div 2
             half == Loop(inp, tauxMensuel, first, mid, acc)
         IN  IF half.graphData # <<>>
             THEN Loop(inp, tauxMensuel, mid + 1, nombreMois, half)
             ELSE half

\* montantInvesti without the initial capital.
MontantInvestiNoInitial(inp, nombreMois) == Mul(inp.mensualite, nombreMois)

\* montantInvesti, line 223
MontantInvesti(inp, nombreMois) ==
    Add(inp.sommeInitiale, Mul(inp.mensualite, nombreMois))

\* The gain handed to setResults, lines 224 and 230
Gains(montantTotal, montantInvesti) == ToFixed2(Sub(montantTotal, montantInvesti))

\* The object handed to setResults, lines 203-233
calculateInvestment(inp) ==
    LET nombreMois == NombreMois(inp)
        first == [mois |-> 0, total |-> inp.sommeInitiale,
                  investi |-> inp.sommeInitiale]
        end == Loop(inp, TauxMensuel(inp), 1, nombreMois,
                    [montantTotal |-> inp.sommeInitiale, graphData |-> <<first>>])
        montantInvesti == MontantInvesti(inp, nombreMois)
    IN  [montantTotal   |-> ToFixed2(end.montantTotal),
         montantInvesti |-> montantInvesti,
         gains          |-> Gains(end.montantTotal, montantInvesti),
         graphData      |-> end.graphData,
         recommandation |-> calculateRecommendation(inp.trancheRevenu)]

---------------------------------------------------------------------------
(* What the form fields can hand to handleInputChange, lines 293-380 *)

\* An amount strictly between 0 and half a cent.
UnderHalfCent == (SubCent \div 2) - 1

\* A sample of what parseFloat / parseInt return for each number field (an
\* emptied field gives NaN: taken for one parseFloat field and for the
\* parseInt field) and of the ids the Select hands over, with one id that
\* is in no bracket.
RawValues(name) ==
    CASE name = "sommeInitiale" -> {NaN, Eur(-50), UnderHalfCent}
      [] name = "mensualite"    -> {Eur(-1), Eur(50)}
      [] name = "tauxAnnuel"    -> {Pct(-1), 25, Pct(150)}
      [] name = "nombreAnnees"  -> {NaN, 0, 2, 51}
      [] name = "trancheRevenu" -> TrancheIds \cup {"inconnue"}

\* The parameter sets whose totals the model's integers can hold.
Simulable(inp) ==
    IF IsNaN(inp.nombreAnnees) \/ IsNaN(inp.tauxAnnuel)
    THEN TRUE
    ELSE inp.nombreAnnees * inp.tauxAnnuel <= MaxGrowth * RateScale

---------------------------------------------------------------------------
(* The component *)

\* The state after the first render and its effect: the first debounced run
\* is scheduled (lines 241-246).
Init ==
    /\ isDarkMode = TRUE
    /\ errors = <<>>
    /\ inputs = InitialInputs
    /\ results = InitialResults
    /\ rErrors = <<>>
    /\ stale = FALSE
    /\ timer = {InitialInputs}
    /\ timerInputs = InitialInputs
    /\ mounted = TRUE
    /\ ran = <<>>
    /\ lastEvent = <<>>
    /\ lastRaw = <<>>
    /\ nChanges = 0

\* handleInputChange, lines 255-259
handleInputChange(name, value) ==
    /\ mounted
    /\ nChanges < MaxChanges
    /\ LET validated == validateInput(name, value)
       IN  /\ inputs' = [inputs EXCEPT ![name] = validated.value]
           /\ errors' = validated.errors
    /\ Simulable(inputs')
    /\ stale' = TRUE
    /\ lastEvent' = <<[name |-> name, value |-> value]>>
    /\ lastRaw' = WithKey(lastRaw, name, value)
    /\ nChanges' = nChanges + 1
    /\ UNCHANGED <<isDarkMode, results, rErrors, timer, timerInputs, mounted, ran>>

\* Render with an effect that has no cleanup: the new debounced function is
\* called and the one of the previous render stays pending.
RenderNoCancel ==
    /\ mounted
    /\ stale
    /\ rErrors' = errors
    /\ timer' = timer \cup {inputs}
    /\ timerInputs' = inputs
    /\ stale' = FALSE
    /\ UNCHANGED <<isDarkMode, errors, inputs, results, mounted, ran, lastEvent,
                   lastRaw, nChanges>>

\* Render with an effect that runs at mount only (an empty dependency list):
\* the re-render schedules nothing and cancels nothing.
RenderNoSchedule ==
    /\ mounted
    /\ stale
    /\ rErrors' = errors
    /\ timerInputs' = inputs
    /\ stale' = FALSE
    /\ UNCHANGED <<isDarkMode, errors, inputs, results, timer, mounted, ran,
                   lastEvent, lastRaw, nChanges>>

\* The re-render after setInputs / setErrors: the handlers close over the new
\* errors, useCallback builds a new debounced function over the new inputs
\* (lines 200-239), and the effect cancels the old one and calls the new one
\* (lines 241-246).
Render ==
    /\ mounted
    /\ stale
    /\ rErrors' = errors
    /\ timer' = {inputs}
    /\ timerInputs' = inputs
    /\ stale' = FALSE
    /\ UNCHANGED <<isDarkMode, errors, inputs, results, mounted, ran, lastEvent,
                   lastRaw, nChanges>>

\* Fire with a series that is kept between runs: the run pushes its points
\* onto the graphData already in results instead of onto a fresh array.
FireAppending ==
    /\ \E closure \in timer :
         /\ results' = [calculateInvestment(closure) EXCEPT
                            !.graphData = results.graphData \o @]
         /\ ran' = <<closure>>
         /\ timer' = timer \ {closure}
    /\ UNCHANGED <<isDarkMode, errors, inputs, rErrors, stale, timerInputs,
                   mounted, lastEvent, lastRaw, nChanges>>

\* Fire with a result that is written field by field: only the series is
\* replaced, the totals and the recommendation keep their previous values.
FirePartial ==
    /\ \E closure \in timer :
         /\ results' = [results EXCEPT
                            !.graphData = calculateInvestment(closure).graphData]
         /\ ran' = <<closure>>
         /\ timer' = timer \ {closure}
    /\ UNCHANGED <<isDarkMode, errors, inputs, rErrors, stale, timerInputs,
                   mounted, lastEvent, lastRaw, nChanges>>

\* The debounce timer fires: the body of the debounced function, lines 202-236
Fire ==
    /\ \E closure \in timer :
         /\ results' = calculateInvestment(closure)
         /\ ran' = <<closure>>
         /\ timer' = timer \ {closure}
    /\ UNCHANGED <<isDarkMode, errors, inputs, rErrors, stale, timerInputs,
                   mounted, lastEvent, lastRaw, nChanges>>

\* ToggleTheme with the theme among what the debounced function depends on:
\* switching it builds a new debounced function and the effect schedules a
\* run.
ToggleThemeReschedules ==
    /\ mounted
    /\ isDarkMode' = ~isDarkMode
    /\ timer' = {timerInputs}
    /\ UNCHANGED <<errors, inputs, results, rErrors, stale, timerInputs,
                   mounted, ran, lastEvent, lastRaw, nChanges>>

\* Switch.onChange, line 277
ToggleTheme ==
    /\ mounted
    /\ isDarkMode' = ~isDarkMode
    /\ UNCHANGED <<errors, inputs, results, rErrors, stale, timer, timerInputs,
                   mounted, ran, lastEvent, lastRaw, nChanges>>

\* Unmount: the effect's cleanup cancels the pending run, lines 243-245
Unmount ==
    /\ mounted
    /\ mounted' = FALSE
    /\ timer' = {}
    /\ UNCHANGED <<isDarkMode, errors, inputs, results, rErrors, stale,
                   timerInputs, ran, lastEvent, lastRaw, nChanges>>

Next ==
    \/ \E name \in FieldNames \cup {"trancheRevenu"} :
         \E value \in RawValues(name) : handleInputChange(name, value)
    \/ Render
    \/ Fire
    \/ ToggleTheme
    \/ Unmount

Spec == Init /\ [][Next]_vars

\* The debounce timer of a pending call runs out (300 ms after the call, line
\* 237): a step that takes one call out of the pending ones with the
\* component still mounted.  Among the steps of Next these are the steps of
\* Fire.
TimerFires ==
    \E closure \in timer : timer' = timer \ {closure} /\ mounted' = mounted

\* The component with its scheduler: React carries out a re-render that
\* setInputs / setErrors asked for, and the browser fires a debounce timer
\* that stays pending.
FairSpec == Init /\ [][Next]_vars /\ WF_vars(Render) /\ WF_timer(TimerFires)

---------------------------------------------------------------------------
(* The validator: C1, C2, C3 *)

\* The documented bound of each validated field.
InBound(name, v) ==
    CASE name = "sommeInitiale" -> ~IsNaN(v) /\ v >= Eur(0)
      [] name = "mensualite"    -> ~IsNaN(v) /\ v >= Eur(0)
      [] name = "tauxAnnuel"    -> ~IsNaN(v) /\ v >= Pct(0) /\ v <= Pct(100)
      [] name = "nombreAnnees"  -> ~IsNaN(v) /\ v >= 1 /\ v <= 50

\* The last event was on a validated field.
Validated == lastEvent # <<>> /\ lastEvent[1].name \in FieldNames

\* C1: after any sequence of handleInputChange calls, NaN included among the
\* raw values, every stored input lies within its field's documented bound:
\* amounts >= 0, tauxAnnuel in [0,100], nombreAnnees in [1,50].
C1_StoredInputsInBound == \A f \in FieldNames : InBound(f, inputs[f])

\* C2: after validateInput(name, raw), the field has a message if and only if
\* the returned value differs from the raw one or the raw one was unparseable.
C2_MessageIffChangedOrUnparseable ==
    Validated =>
        LET name == lastEvent[1].name
            raw  == lastEvent[1].value
        IN  (name \in DOMAIN errors) <=> (IsNaN(raw) \/ inputs[name] # raw)

\* The valid value nearest to a numeric raw value.
Nearest(name, raw) ==
    CASE name = "sommeInitiale" -> IF raw < Eur(0) THEN Eur(0) ELSE raw
      [] name = "mensualite"    -> IF raw < Eur(0) THEN Eur(0) ELSE raw
      [] name = "tauxAnnuel"    -> IF raw < Pct(0) THEN Pct(0)
                                   ELSE IF raw > Pct(100) THEN Pct(100) ELSE raw
      [] name = "nombreAnnees"  -> IF raw < 1 THEN 1
                                   ELSE IF raw > 50 THEN 50 ELSE raw

\* C3: for a numeric raw value, validateInput returns the nearest valid bound
\* when the value is out of range, with a non-empty message, and the value
\* itself, with no message, when it is in range.
C3_NumericClampedToNearest ==
    (Validated /\ ~IsNaN(lastEvent[1].value)) =>
        LET name == lastEvent[1].name
            raw  == lastEvent[1].value
        IN  /\ inputs[name] = Nearest(name, raw)
            /\ IF Nearest(name, raw) # raw
               THEN name \in DOMAIN errors /\ errors[name] # ""
               ELSE name \notin DOMAIN errors

\* tauxAnnuel 150 was entered and 100 is stored, with a message.
C3_Witness ==
    /\ Validated
    /\ lastEvent[1].name = "tauxAnnuel"
    /\ lastEvent[1].value = Pct(150)
    /\ inputs.tauxAnnuel = Pct(100)
    /\ "tauxAnnuel" \in DOMAIN errors

---------------------------------------------------------------------------
(* The simulation: C4 - C9 *)

\* A run has written results; its parameters.
HasRun == ran # <<>>
Params == ran[1]

\* A valid parameter set: every numeric field within its documented bound.
ValidParams(p) == \A f \in FieldNames : InBound(f, p[f])

\* A run on valid parameters has written results.
ValidRun == HasRun /\ ValidParams(Params)

\* The unrounded totals T_(first-1) .. T_nombreMois of the recurrence
\*   T_m = (T_(m-1) + mensualite) * (1 + tauxAnnuel / 100 / 12),
\* given those up to T_(first-1); halved as Loop is.
RECURSIVE Recurrence(_, _, _, _)
Recurrence(p, first, nombreMois, totals) ==
    IF first > nombreMois THEN totals
    ELSE IF first = nombreMois
    THEN Append(totals,
                TimesOnePlus(totals[Len(totals)] + p.mensualite, p.tauxAnnuel))
    ELSE LET mid  == (first + nombreMois) \div 2
             half == Recurrence(p, first, mid, totals)
         IN  IF half # <<>> THEN Recurrence(p, mid + 1, nombreMois, half) ELSE half

\* T_0 .. T_(years * 12), T_m at index m + 1
Totals(p) == Recurrence(p, 1, p.nombreAnnees * 12, <<p.sommeInitiale>>)

\* C4: for valid parameters the point of month m >= 1 holds round2(T_m), T_m
\* the unrounded contribution-then-growth recurrence from T_0 = initialCapital.
C4_SeriesIsRecurrence ==
    ValidRun =>
        LET totals == Totals(Params)
        IN  /\ Len(results.graphData) = Len(totals)
            /\ \A i \in 2..Len(totals) :
                   results.graphData[i].total = ToFixed2(totals[i])

\* A run with a positive rate and contribution whose accumulator left the
\* cent grid, so that rounding it back would change the following months.
C4_Witness ==
    /\ ValidRun
    /\ Params.tauxAnnuel > 0
    /\ Params.mensualite > 0
    /\ LET totals == Totals(Params)
       IN  \E i \in 2..(Len(totals) - 1) : ToFixed2(totals[i]) # totals[i]

\* C5: for valid parameters the series has years*12 + 1 points, carries the
\* months 0, 1, ..., years*12 in order, and starts with
\* {0, initialCapital, initialCapital}.
C5_SeriesShape ==
    ValidRun =>
        /\ Len(results.graphData) = Params.nombreAnnees * 12 + 1
        /\ \A i \in 1..Len(results.graphData) : results.graphData[i].mois = i - 1
        /\ results.graphData[1] = [mois |-> 0, total |-> Params.sommeInitiale,
                                   investi |-> Params.sommeInitiale]

\* A 50-year run at a positive rate: 601 points, the last one of month 600.
C5_Witness ==
    /\ ValidRun
    /\ Params.nombreAnnees = 50
    /\ Params.tauxAnnuel > 0
    /\ Len(results.graphData) = 601
    /\ results.graphData[601].mois = 600

\* C6 as stated: with a positive rate (and contribution >= 0) the totals of
\* the series never decrease, from the initial point on.
C6_SeriesNonDecreasing ==
    (ValidRun /\ Params.tauxAnnuel > 0) =>
        \A i \in 1..(Len(results.graphData) - 1) :
            results.graphData[i].total <= results.graphData[i + 1].total

\* C6 amended: with a positive rate the totals never decrease from month 1
\* on, and the step from the initial point to month 1 does not decrease either
\* when the initial capital is a whole number of cents.
C6_SeriesNonDecreasingFromMonthOne ==
    (ValidRun /\ Params.tauxAnnuel > 0) =>
        /\ \A i \in 2..(Len(results.graphData) - 1) :
               results.graphData[i].total <= results.graphData[i + 1].total
        /\ ToFixed2(Params.sommeInitiale) = Params.sommeInitiale =>
               results.graphData[1].total <= results.graphData[2].total

\* A run with a positive rate whose totals grow from month 1 to the last.
C6_Witness ==
    /\ ValidRun
    /\ Params.tauxAnnuel > 0
    /\ Len(results.graphData) > 2
    /\ results.graphData[2].total < results.graphData[Len(results.graphData)].total

\* C7: the reported gains equal the reported montantTotal minus the reported
\* montantInvesti, for all valid parameters.
C7_GainsIsTotalMinusInvested ==
    ValidRun => results.gains = results.montantTotal - results.montantInvesti

\* C8: montantInvesti is initialCapital + mensualite * years*12, point i has
\* investi = initialCapital + mensualite * i, and the last point's investi is
\* montantInvesti.
C8_InvestedIsExact ==
    ValidRun =>
        /\ results.montantInvesti =
               Params.sommeInitiale + Params.mensualite * (Params.nombreAnnees * 12)
        /\ \A i \in 1..Len(results.graphData) :
               results.graphData[i].investi =
                   Params.sommeInitiale + Params.mensualite * (i - 1)
        /\ results.graphData[Len(results.graphData)].investi = results.montantInvesti

\* A run with an initial capital and a contribution, both positive.
C8_Witness ==
    /\ ValidRun
    /\ Params.sommeInitiale > 0
    /\ Params.mensualite > 0
    /\ results.montantInvesti > Params.sommeInitiale

\* |a - b| is at most half a cent
WithinRounding(a, b) == 2 * (a - b) <= SubCent /\ 2 * (b - a) <= SubCent

\* C9: with a zero rate montantTotal is initialCapital + mensualite * months
\* within rounding, every point's total is its investi within rounding, and
\* gains is 0.
C9_ZeroRateIsLinear ==
    (ValidRun /\ Params.tauxAnnuel = 0) =>
        /\ WithinRounding(results.montantTotal,
               Params.sommeInitiale + Params.mensualite * (Params.nombreAnnees * 12))
        /\ \A i \in 1..Len(results.graphData) :
               WithinRounding(results.graphData[i].total,
                              results.graphData[i].investi)
        /\ results.gains = 0

\* A zero-rate run that accumulated contributions.
C9_Witness ==
    /\ ValidRun
    /\ Params.tauxAnnuel = 0
    /\ Params.mensualite > 0
    /\ results.montantTotal > 0

---------------------------------------------------------------------------
(* The recommendation: C10 *)

\* m is n / d rounded to the nearest integer, halves up
IsRounded(m, n, d) == 2 * n - d < 2 * d * m /\ 2 * d * m <= 2 * n + d

\* C10: for each of the five brackets the recommendation written with a run
\* is montantRecommande = round(((min + max) / 2) * tauxEpargneRecommande) and
\* pourcentageRevenu = tauxEpargneRecommande * 100 ('moins-2000': 50 and 5),
\* and it is the resolver's result for inputs.trancheRevenu.
C10_RecommendationOfBracket ==
    HasRun =>
        /\ results.recommandation = calculateRecommendation(Params.trancheRevenu)
        /\ \A i \in 1..Len(TRANCHES) :
               Params.trancheRevenu = TRANCHES[i].id =>
                   /\ IsRounded(results.recommandation.montantRecommande,
                                (TRANCHES[i].min + TRANCHES[i].max)
                                    * TRANCHES[i].tauxEpargneRecommande,
                                2 * RateDen)
                   /\ results.recommandation.pourcentageRevenu * RateDen
                          = TRANCHES[i].tauxEpargneRecommande * 100
        /\ Params.trancheRevenu = "moins-2000" =>
               /\ results.recommandation.montantRecommande = 50
               /\ results.recommandation.pourcentageRevenu = 5

\* A run for the last bracket: round(54000 * 0.25) = 13500 and 25 percent.
C10_Witness ==
    /\ HasRun
    /\ Params.trancheRevenu = "plus-8000"
    /\ results.recommandation.montantRecommande = 13500
    /\ results.recommandation.pourcentageRevenu = 25

---------------------------------------------------------------------------
(* The unknown bracket: C11 *)

\* The part of a result that does not depend on the bracket.
TotalsAndSeries(r) ==
    [montantTotal |-> r.montantTotal, montantInvesti |-> r.montantInvesti,
     gains |-> r.gains, graphData |-> r.graphData]

\* C11: a run whose bracket id is none of the five writes the recommendation
\* {montantRecommande: 0, pourcentageRevenu: 0} and a full result whose totals
\* and series are those of the same parameters with any known bracket id.
C11_UnknownBracketDegradesToZero ==
    (HasRun /\ Params.trancheRevenu \notin TrancheIds) =>
        /\ results.recommandation = [montantRecommande |-> 0, pourcentageRevenu |-> 0]
        /\ Len(results.graphData) >= 1
        /\ \A id \in TrancheIds :
               TotalsAndSeries(results) =
                   TotalsAndSeries(calculateInvestment(
                       [Params EXCEPT !.trancheRevenu = id]))

\* A run for the id 'inconnue' with the default amounts: 36 months simulated,
\* the recommendation zero.
C11_Witness ==
    /\ HasRun
    /\ Params.trancheRevenu = "inconnue"
    /\ Len(results.graphData) = 37
    /\ results.montantTotal > 0
    /\ results.recommandation.montantRecommande = 0

---------------------------------------------------------------------------
(* Determinism: C12 *)

\* C12: the result a run writes is a function of the parameters it read and
\* of nothing else: whatever results, messages and theme the component had
\* before the run, what the run leaves in results is the result of those
\* parameters, with a series built afresh.
C12_ResultsDependOnParamsOnly ==
    [][ (results' # results \/ ran' # ran) =>
            results' = calculateInvestment(ran'[1]) ]_vars

\* A second run on the default parameters, fired after an event that left a
\* message and the inputs as they were, with the theme switched: it wrote the
\* result of the default parameters, 37 points and no more.
C12_Witness ==
    /\ HasRun
    /\ Params = InitialInputs
    /\ nChanges >= 1
    /\ mounted /\ ~stale /\ timer = {}
    /\ errors # <<>>
    /\ ~isDarkMode
    /\ Len(results.graphData) = 37
    /\ results # InitialResults

---------------------------------------------------------------------------
(* The debounce: C13 *)

\* C13: the last scheduled run wins.  After every step the only run that can
\* be pending is the one scheduled by the current render, over the inputs of
\* that render: a re-render for changed inputs has cancelled the run that was
\* pending before it, and an unmount leaves none pending.  A run that writes
\* results has read the inputs of the render that was current when it fired.
C13_LastScheduledWins ==
    [][ /\ timer' \subseteq {timerInputs'}
        /\ ~mounted' => timer' = {}
        /\ results' # results => ran' = <<timerInputs>> ]_vars

\* The run scheduled at mount never fired: the inputs changed while it was
\* pending, the re-render cancelled it and scheduled the run over the new
\* inputs, which is the only one pending.
C13_Witness ==
    /\ mounted
    /\ ~HasRun
    /\ results = InitialResults
    /\ nChanges >= 1
    /\ ~stale
    /\ inputs # InitialInputs
    /\ timer = {inputs}

---------------------------------------------------------------------------
(* All or nothing: C14 *)

\* C14: results is the initial empty result until a run has written, and
\* from then on every field of it comes from one run over one snapshot of
\* inputs: the series starts at that snapshot's initial sum, the totals are
\* those of the last point of the series, the invested amount and the
\* recommendation are those of the same snapshot.
C14_ResultsAllOrNothing ==
    IF ~HasRun
    THEN results = InitialResults
    ELSE LET n == Len(results.graphData)
         IN  /\ n >= 1
             /\ results.graphData[1] =
                    [mois |-> 0, total |-> Params.sommeInitiale,
                     investi |-> Params.sommeInitiale]
             /\ results.montantTotal =
                    IF n > 1 THEN results.graphData[n].total
                    ELSE ToFixed2(Params.sommeInitiale)
             /\ n > 1 => results.graphData[n].investi = results.montantInvesti
             /\ results.montantInvesti =
                    Add(Params.sommeInitiale,
                        Mul(Params.mensualite, Mul(Params.nombreAnnees, 12)))
             /\ results.recommandation.pourcentageRevenu =
                    calculateRecommendation(Params.trancheRevenu).pourcentageRevenu

\* A run over changed inputs has replaced the result of an earlier snapshot:
\* two years at 50 euros a month, 25 points, 1200 euros invested.
C14_Witness ==
    /\ HasRun
    /\ Params.mensualite = Eur(50)
    /\ Params.nombreAnnees = 2
    /\ Len(results.graphData) = 25
    /\ results.montantInvesti = Add(Params.sommeInitiale, Eur(1200))
    /\ results.montantTotal = results.graphData[25].total

---------------------------------------------------------------------------
(* Termination of the loop: C15 *)

\* The iterations the loop of a run made: one point is pushed per iteration
\* after the point of month 0.
Iterations == Len(results.graphData) - 1

\* C15: for every inputs state handleInputChange can store, the loop of a run
\* makes exactly nombreAnnees * 12 iterations, at least 12 and at most 600,
\* and the run then writes a result.
C15_LoopRunsYearsTimesTwelve ==
    HasRun =>
        /\ results # InitialResults
        /\ Iterations = Mul(Params.nombreAnnees, 12)
        /\ 12 <= Iterations /\ Iterations <= 600

---------------------------------------------------------------------------
(* The theme switch: C16 *)

\* C16: a step that switches the theme changes nothing else: inputs, errors
\* and results stay as they are, no run is scheduled and none is cancelled;
\* and a run that writes results writes the result of the inputs it read,
\* whichever the theme is and however often it was switched.
C16_ThemeToggleIsLocal ==
    [][ /\ isDarkMode' # isDarkMode =>
               UNCHANGED <<errors, inputs, results, rErrors, stale, timer,
                           timerInputs, mounted, ran>>
        /\ results' # results =>
               \E closure \in timer :
                   /\ results' = calculateInvestment(closure)
                   /\ isDarkMode' = isDarkMode ]_vars

\* The theme is switched and the run scheduled at mount has fired: results
\* holds the result of the default inputs and no run is pending.
C16_Witness ==
    /\ ~isDarkMode
    /\ mounted
    /\ nChanges = 0
    /\ timer = {}
    /\ HasRun
    /\ results = calculateInvestment(InitialInputs)

---------------------------------------------------------------------------
(* The messages of the fields: C17 *)

\* A numeric raw value outside the bound of its field.
OutOfRange(name, raw) == ~IsNaN(raw) /\ Nearest(name, raw) # raw

\* The errors map holds a message for exactly the fields whose most recent
\* raw value was out of range.
MessagesFollowLastRaw(errs, raws) ==
    \A f \in FieldNames :
        (f \in DOMAIN errs) <=> (f \in DOMAIN raws /\ OutOfRange(f, raws[f]))

\* C17: after any sequence of handleInputChange events, two events handled
\* before a re-render included, errors holds a message for a field if and
\* only if the most recent raw value submitted for it was out of range, and
\* an event for one field changes neither the stored value nor the message of
\* any other field.
C17_MessagesPerField ==
    [][ nChanges' # nChanges =>
            /\ MessagesFollowLastRaw(errors', lastRaw')
            /\ \A g \in (FieldNames \cup {"trancheRevenu"}) \ {lastEvent'[1].name} :
                   /\ inputs'[g] = inputs[g]
                   /\ (g \in DOMAIN errors') <=> (g \in DOMAIN errors)
                   /\ g \in DOMAIN errors => errors'[g] = errors[g] ]_vars

---------------------------------------------------------------------------
(* Eventual consistency: C18 *)

\* C18: if the component stays mounted then, once the inputs have stopped
\* changing, results eventually is the simulation of the current inputs,
\* written by a run that read them, and stays so; with no change at all this
\* is the run scheduled at mount.
C18_EventuallyConsistent ==
    ([]mounted) =>
        <>[](ran = <<inputs>> /\ results = calculateInvestment(inputs))

\* After a change of inputs the re-render has happened and the run it
\* scheduled has fired: results is the simulation of the changed inputs.
C18_Witness ==
    /\ mounted
    /\ nChanges >= 1
    /\ inputs # InitialInputs
    /\ ~stale
    /\ timer = {}
    /\ results = calculateInvestment(inputs)

====
